---------------------------- MODULE Spec2Model ----------------------------
(***************************************************************************)
(* A model of rudis' RESP decoder (src/protocol/resp.rs) and of its        *)
(* command layer (src/command/commands.rs).                                *)
(*                                                                         *)
(* Bytes are one-character strings; "CR", "LF" and "xFF" stand for the     *)
(* bytes 0x0D, 0x0A and 0xFF (0xFF never occurs in valid UTF-8).  A byte   *)
(* buffer, a String and a Vec<u8> are sequences of bytes.                  *)
(*                                                                         *)
(* 64-bit integers do not fit TLC's integers, so an i64 / u64 is kept as   *)
(* its canonical decimal text (what Display prints): an optional "-" and   *)
(* digits without leading zeros.  Range checks compare decimal texts.      *)
(***************************************************************************)
EXTENDS Integers, Sequences, FiniteSets, TLC

VARIABLES
    pc,      \* position of the driver
    buf,     \* bytes not yet decoded
    orig,    \* the whole buffer the pipelined loop started from
    inp,     \* input of the last parse_raw call
    out,     \* result of the last parse_raw call
    calls,   \* parse_raw calls of the pipelined loop so far
    val,     \* round trip: the wire value being sent
    tail,    \* round trip: bytes that follow the encoded value
    req,     \* command layer: the RESPType handed to RedisCommands::try_from
    res      \* command layer: its result

vars == <<pc, buf, orig, inp, out, calls, val, tail, req, res>>

-----------------------------------------------------------------------------
(* Bytes and decimal text *)

CR == "CR"
LF == "LF"
BAD == "xFF"
CRLF == <<CR, LF>>

DigitChars == <<"0", "1", "2", "3", "4", "5", "6", "7", "8", "9">>
Digit == {DigitChars[i] : i \in 1..10}
DigitVal(c) == (CHOOSE i \in 1..10 : DigitChars[i] = c) - 1

\* std::str::from_utf8 succeeds: no byte of the slice is invalid UTF-8
from_utf8_ok(s) == \A i \in 1..Len(s) : s[i] # BAD

Drop(s, k) == SubSeq(s, k + 1, Len(s))
Take(s, k) == SubSeq(s, 1, k)

\* digits without leading zeros, at least one digit kept
RECURSIVE StripZeros(_)
StripZeros(d) ==
    IF Len(d) > 1 /\ d[1] = "0" THEN StripZeros(Tail(d)) ELSE d

\* a < b or a = b, for two magnitudes without leading zeros
RECURSIVE LexLeq(_, _)
LexLeq(a, b) ==
    IF Len(a) = 0 THEN TRUE
    ELSE IF DigitVal(a[1]) # DigitVal(b[1]) THEN DigitVal(a[1]) < DigitVal(b[1])
    ELSE LexLeq(Tail(a), Tail(b))

MagLeq(a, b) == Len(a) < Len(b) \/ (Len(a) = Len(b) /\ LexLeq(a, b))

\* i64::MAX, -i64::MIN and u64::MAX as magnitudes
I64MaxMag == <<"9","2","2","3","3","7","2","0","3","6","8","5","4","7","7","5","8","0","7">>
I64MinMag == <<"9","2","2","3","3","7","2","0","3","6","8","5","4","7","7","5","8","0","8">>
U64MaxMag == <<"1","8","4","4","6","7","4","4","0","7","3","7","0","9","5","5","1","6","1","5">>

ParseFail == [ok |-> FALSE, n |-> <<>>]

\* str::parse::<i64>(): optional sign, at least one digit, only digits, in range
parse_i64(s) ==
    LET signed == Len(s) > 0 /\ s[1] \in {"+", "-"}
        neg == Len(s) > 0 /\ s[1] = "-"
        d == IF signed THEN Tail(s) ELSE s
        mag == StripZeros(d)
    IN  IF Len(d) = 0 \/ (\E i \in 1..Len(d) : d[i] \notin Digit) THEN ParseFail
        ELSE IF ~MagLeq(mag, IF neg THEN I64MinMag ELSE I64MaxMag) THEN ParseFail
        ELSE [ok |-> TRUE,
              n |-> IF neg /\ mag # <<"0">> THEN <<"-">> \o mag ELSE mag]

\* str::parse::<u64>(): optional "+", at least one digit, only digits, in range
parse_u64(s) ==
    LET d == IF Len(s) > 0 /\ s[1] = "+" THEN Tail(s) ELSE s
        mag == StripZeros(d)
    IN  IF Len(d) = 0 \/ (\E i \in 1..Len(d) : d[i] \notin Digit) THEN ParseFail
        ELSE IF ~MagLeq(mag, U64MaxMag) THEN ParseFail
        ELSE [ok |-> TRUE, n |-> mag]

RECURSIVE ToNat(_)
ToNat(d) == IF Len(d) = 0 THEN 0 ELSE 10 * ToNat(Take(d, Len(d) - 1)) + DigitVal(d[Len(d)])

\* a count no buffer of the model reaches: every usize of ten digits or more
Far == 10 ^ 9

\* as_usize with the sign dropped (len.abs() in place of the cast)
as_usize_abs(n) ==
    IF n[1] = "-" THEN (IF Len(n) >= 11 THEN Far ELSE ToNat(Tail(n)))
    ELSE IF Len(n) >= 10 THEN Far
    ELSE ToNat(n)

\* `len as usize` for an i64 len on a 64-bit target: a negative len wraps to
\* 2^64 + len, which is at least 2^63; values of ten digits or more are kept
\* as Far
as_usize(n) ==
    IF n[1] = "-" THEN Far
    ELSE IF Len(n) >= 10 THEN Far
    ELSE ToNat(n)

MinusOne == <<"-", "1">>

-----------------------------------------------------------------------------
(* RESPType *)

RStr(s) == [tag |-> "Str", some |-> TRUE, str |-> s, num |-> <<>>, arr |-> <<>>]
RError(s) == [tag |-> "Error", some |-> TRUE, str |-> s, num |-> <<>>, arr |-> <<>>]
RInteger(n) == [tag |-> "Integer", some |-> TRUE, str |-> <<>>, num |-> n, arr |-> <<>>]
RBulk(b) == [tag |-> "BulkStr", some |-> TRUE, str |-> b, num |-> <<>>, arr |-> <<>>]
RBulkNone == [tag |-> "BulkStr", some |-> FALSE, str |-> <<>>, num |-> <<>>, arr |-> <<>>]
RArr(a) == [tag |-> "Arr", some |-> TRUE, str |-> <<>>, num |-> <<>>, arr |-> a]
RArrNone == [tag |-> "Arr", some |-> FALSE, str |-> <<>>, num |-> <<>>, arr |-> <<>>]

-----------------------------------------------------------------------------
(* nom combinators as the decoder uses them; a result is [ok, v, rest] *)

NoVal == [tag |-> "none", some |-> FALSE, str |-> <<>>, num |-> <<>>, arr |-> <<>>]
PErr == [ok |-> FALSE, v |-> NoVal, rest |-> <<>>]
POk(v, rest) == [ok |-> TRUE, v |-> v, rest |-> rest]

\* index of the first CR of i, 0 when there is none
FirstCR(i) ==
    IF \E k \in 1..Len(i) : i[k] = CR
    THEN CHOOSE k \in 1..Len(i) : i[k] = CR /\ \A j \in 1..(k - 1) : i[j] # CR
    ELSE 0

\* crlf: the input starts with CR LF
crlf_ok(i) == Len(i) >= 2 /\ i[1] = CR /\ i[2] = LF

\* delimited with a take_until that runs to the last CR of the input
delimited_greedy(c, i) ==
    LET crs == {k \in 1..Len(i) : i[k] = CR}
        k == CHOOSE x \in crs : \A y \in crs : y <= x
    IN  IF Len(i) = 0 \/ i[1] # c \/ crs = {} THEN [ok |-> FALSE, line |-> <<>>, rest |-> <<>>]
        ELSE IF ~crlf_ok(Drop(i, k - 1)) THEN [ok |-> FALSE, line |-> <<>>, rest |-> <<>>]
        ELSE [ok |-> TRUE, line |-> SubSeq(i, 2, k - 1), rest |-> Drop(i, k + 1)]

\* delimited(char(c), take_until("\r"), crlf): [ok, line, rest]
delimited(c, i) ==
    LET k == FirstCR(i)
    IN  IF Len(i) = 0 \/ i[1] # c THEN [ok |-> FALSE, line |-> <<>>, rest |-> <<>>]
        ELSE IF k = 0 THEN [ok |-> FALSE, line |-> <<>>, rest |-> <<>>]
        ELSE IF ~crlf_ok(Drop(i, k - 1)) THEN [ok |-> FALSE, line |-> <<>>, rest |-> <<>>]
        ELSE [ok |-> TRUE, line |-> SubSeq(i, 2, k - 1), rest |-> Drop(i, k + 1)]

\* ps(c): the line as a String
ps(c, i) ==
    LET d == delimited(c, i)
    IN  IF d.ok /\ from_utf8_ok(d.line) THEN d
        ELSE [ok |-> FALSE, line |-> <<>>, rest |-> <<>>]

parse_str(i) ==
    LET r == ps("+", i) IN IF r.ok THEN POk(RStr(r.line), r.rest) ELSE PErr

parse_err(i) ==
    LET r == ps("-", i) IN IF r.ok THEN POk(RError(r.line), r.rest) ELSE PErr

parse_integer(i) ==
    LET d == delimited(":", i)
        n == parse_i64(d.line)
    IN  IF d.ok /\ from_utf8_ok(d.line) /\ n.ok THEN POk(RInteger(n.n), d.rest)
        ELSE PErr

\* pi(c, i): [ok, n, rest]
pi(c, i) ==
    LET d == delimited(c, i)
        n == parse_i64(d.line)
    IN  IF d.ok /\ from_utf8_ok(d.line) /\ n.ok
        THEN [ok |-> TRUE, n |-> n.n, rest |-> d.rest]
        ELSE [ok |-> FALSE, n |-> <<>>, rest |-> <<>>]

\* the payload read as a line, up to the first CR, whatever the length says
take_line_crlf(m, i) ==
    LET k == FirstCR(i)
    IN  IF k > 0 /\ crlf_ok(Drop(i, k - 1))
        THEN [ok |-> TRUE, line |-> Take(i, k - 1), rest |-> Drop(i, k + 1)]
        ELSE [ok |-> FALSE, line |-> <<>>, rest |-> <<>>]

\* terminated(take_while_m_n(m, m, |_| true), crlf)
take_exact_crlf(m, i) ==
    IF Len(i) >= m /\ crlf_ok(Drop(i, m))
    THEN [ok |-> TRUE, line |-> Take(i, m), rest |-> Drop(i, m + 2)]
    ELSE [ok |-> FALSE, line |-> <<>>, rest |-> <<>>]

\* parse_bulk_str whose null branch returns its input, not what follows the header
parse_bulk_str_null_unconsumed(i) ==
    LET h == pi("$", i)
        b == take_exact_crlf(as_usize(h.n), h.rest)
    IN  IF ~h.ok THEN PErr
        ELSE IF h.n = MinusOne THEN POk(RBulkNone, i)
        ELSE IF b.ok THEN POk(RBulk(b.line), b.rest)
        ELSE PErr

parse_bulk_str(i) ==
    LET h == pi("$", i)
        b == take_exact_crlf(as_usize(h.n), h.rest)
    IN  IF ~h.ok THEN PErr
        ELSE IF h.n = MinusOne THEN POk(RBulkNone, h.rest)
        ELSE IF b.ok THEN POk(RBulk(b.line), b.rest)
        ELSE PErr

RECURSIVE parse_raw(_), many_m_n(_, _, _, _), many_0_n(_, _, _, _)

\* many_m_n(0, m, parse_raw): an element that fails ends the array early
many_0_n(m, count, acc, i) ==
    IF count = m THEN [ok |-> TRUE, items |-> acc, rest |-> i]
    ELSE LET r == parse_raw(i)
         IN  IF ~r.ok \/ Len(r.rest) = Len(i)
             THEN [ok |-> TRUE, items |-> acc, rest |-> i]
             ELSE many_0_n(m, count + 1, Append(acc, r.v), r.rest)

\* many_m_n(m, m, parse_raw): count elements are in acc, i is what is left
many_m_n(m, count, acc, i) ==
    IF count = m THEN [ok |-> TRUE, items |-> acc, rest |-> i]
    ELSE LET r == parse_raw(i)
         IN  IF ~r.ok \/ Len(r.rest) = Len(i)
             THEN [ok |-> FALSE, items |-> <<>>, rest |-> <<>>]
             ELSE many_m_n(m, count + 1, Append(acc, r.v), r.rest)

parse_arr(i) ==
    LET h == pi("*", i)
        a == many_m_n(as_usize(h.n), 0, <<>>, h.rest)
    IN  IF ~h.ok THEN PErr
        ELSE IF h.n = MinusOne THEN POk(RArrNone, h.rest)
        ELSE IF a.ok THEN POk(RArr(a.items), a.rest)
        ELSE PErr

\* alt((parse_str, parse_err, parse_integer, parse_bulk_str, parse_arr))
parse_raw(i) ==
    LET a == parse_str(i)
        b == parse_err(i)
        c == parse_integer(i)
        d == parse_bulk_str(i)
    IN  IF a.ok THEN a
        ELSE IF b.ok THEN b
        ELSE IF c.ok THEN c
        ELSE IF d.ok THEN d
        ELSE parse_arr(i)

-----------------------------------------------------------------------------
(* RESPType accessors; a result is [ok, s, err] *)

StrOk(t) == [ok |-> TRUE, s |-> t, err |-> ""]
StrErr(e) == [ok |-> FALSE, s |-> <<>>, err |-> e]

get_string(v) ==
    CASE v.tag = "Str" -> StrOk(v.str)
      [] v.tag = "BulkStr" ->
            IF v.some
            THEN IF from_utf8_ok(v.str) THEN StrOk(v.str) ELSE StrErr("Utf8Error")
            ELSE StrErr("NotStr")
      [] OTHER -> StrErr("NotStr")

\* to_arr: [ok, arr, err]
to_arr(v) ==
    IF v.tag = "Arr" /\ v.some
    THEN IF Len(v.arr) = 0
         THEN [ok |-> FALSE, arr |-> <<>>, err |-> "EmptyArr"]
         ELSE [ok |-> TRUE, arr |-> v.arr, err |-> ""]
    ELSE [ok |-> FALSE, arr |-> <<>>, err |-> "NotArr"]

-----------------------------------------------------------------------------
(* Value, Duration and the commands *)

NoValue == [ok |-> FALSE, kind |-> "", num |-> <<>>, bytes |-> <<>>, err |-> ""]
Num(n) == [NoValue EXCEPT !.ok = TRUE, !.kind = "Num", !.num = n]
BSStr(b) == [NoValue EXCEPT !.ok = TRUE, !.kind = "BSStr", !.bytes = b]
VStr(t) == [NoValue EXCEPT !.ok = TRUE, !.kind = "Str", !.bytes = t]
ValueErr(e) == [NoValue EXCEPT !.err = e]

\* Value::try_from that takes a bulk string only when it is UTF-8 text
Value_try_from_text(v) ==
    CASE v.tag = "Integer" -> Num(v.num)
      [] v.tag = "BulkStr" ->
            IF ~v.some THEN ValueErr("NullStr")
            ELSE IF from_utf8_ok(v.str) THEN BSStr(v.str)
            ELSE ValueErr("WrongValueType")
      [] v.tag = "Str" -> VStr(v.str)
      [] OTHER -> ValueErr("WrongValueType")

\* impl TryFrom<&RESPType> for Value
Value_try_from(v) ==
    CASE v.tag = "Integer" -> Num(v.num)
      [] v.tag = "BulkStr" -> IF v.some THEN BSStr(v.str) ELSE ValueErr("NullStr")
      [] v.tag = "Str" -> VStr(v.str)
      [] OTHER -> ValueErr("WrongValueType")

\* Option<Duration>: whole seconds as decimal text, and the nanoseconds
NoDuration == [some |-> FALSE, secs |-> <<>>, nanos |-> 0]
from_secs(n) == [some |-> TRUE, secs |-> n, nanos |-> 0]
from_millis(n) ==
    IF Len(n) <= 3
    THEN [some |-> TRUE, secs |-> <<"0">>, nanos |-> ToNat(n) * 1000000]
    ELSE [some |-> TRUE, secs |-> Take(n, Len(n) - 3),
          nanos |-> ToNat(Drop(n, Len(n) - 3)) * 1000000]

T_set == <<"s", "e", "t">>
T_get == <<"g", "e", "t">>
T_getset == <<"g", "e", "t", "s", "e", "t">>
T_strlen == <<"s", "t", "r", "l", "e", "n">>
T_exists == <<"e", "x", "i", "s", "t", "s">>
T_del == <<"d", "e", "l">>
T_ex == <<"e", "x">>
T_px == <<"p", "x">>
T_nx == <<"n", "x">>
T_xx == <<"x", "x">>

\* Result<RedisCommands>: the command's fields, or the error and what it carries
NoRes ==
    [ok |-> FALSE, cmd |-> "", key |-> <<>>, value |-> NoValue, expire |-> NoDuration,
     setx |-> "None", keys |-> <<>>, err |-> "", required |-> 0, provided |-> 0,
     name |-> <<>>]
Fail(e) == [NoRes EXCEPT !.err = e]
LackArgs(r, p) == [NoRes EXCEPT !.err = "LackArgs", !.required = r, !.provided = p]
UnknownCommand(t) == [NoRes EXCEPT !.err = "UnknownCommand", !.name = t]
KeyCmd(c, k) == [NoRes EXCEPT !.ok = TRUE, !.cmd = c, !.key = k]

\* the expire step without `arr = &arr[2..]`: "ex" and its number stay in place
set_expire_unconsumed(arr) ==
    LET t == get_string(arr[1])
        g == get_string(arr[2])
        n == parse_u64(g.s)
        none == [ok |-> TRUE, err |-> "", expire |-> NoDuration, rest |-> arr]
        bad(e) == [ok |-> FALSE, err |-> e, expire |-> NoDuration, rest |-> arr]
    IN  IF Len(arr) < 2 THEN none
        ELSE IF ~t.ok THEN bad(t.err)
        ELSE IF t.s \notin {T_ex, T_px} THEN none
        ELSE IF ~g.ok THEN bad(g.err)
        ELSE IF ~n.ok THEN bad("ParseIntError")
        ELSE [ok |-> TRUE, err |-> "",
              expire |-> IF t.s = T_ex THEN from_secs(n.n) ELSE from_millis(n.n),
              rest |-> arr]

\* the expire step of SetCmd::try_from on the arguments after key and value:
\* [ok, err, expire, rest]
set_expire(arr) ==
    LET t == get_string(arr[1])
        g == get_string(arr[2])
        n == parse_u64(g.s)
        none == [ok |-> TRUE, err |-> "", expire |-> NoDuration, rest |-> arr]
        bad(e) == [ok |-> FALSE, err |-> e, expire |-> NoDuration, rest |-> arr]
    IN  IF Len(arr) < 2 THEN none
        ELSE IF ~t.ok THEN bad(t.err)
        ELSE IF t.s \notin {T_ex, T_px} THEN none
        ELSE IF ~g.ok THEN bad(g.err)
        ELSE IF ~n.ok THEN bad("ParseIntError")
        ELSE [ok |-> TRUE, err |-> "",
              expire |-> IF t.s = T_ex THEN from_secs(n.n) ELSE from_millis(n.n),
              rest |-> Drop(arr, 2)]

\* the setx step of SetCmd::try_from on what the expire step left: [ok, err, setx]
set_setx(arr) ==
    LET t == get_string(arr[1])
    IN  IF Len(arr) < 1 THEN [ok |-> TRUE, err |-> "", setx |-> "None"]
        ELSE IF ~t.ok THEN [ok |-> FALSE, err |-> t.err, setx |-> "None"]
        ELSE [ok |-> TRUE, err |-> "",
              setx |-> IF t.s = T_nx THEN "NX" ELSE IF t.s = T_xx THEN "XX" ELSE "None"]

\* impl TryFrom<&[RESPType]> for SetCmd
SetCmd_try_from(arr) ==
    LET n == Len(arr)
        key == get_string(arr[1])
        value == Value_try_from(arr[2])
        e == set_expire(Drop(arr, 2))
        x == set_setx(e.rest)
    IN  IF ~(n >= 2) THEN LackArgs(2, n)
        ELSE IF ~key.ok THEN Fail(key.err)
        ELSE IF ~value.ok THEN Fail(value.err)
        ELSE IF ~e.ok THEN Fail(e.err)
        ELSE IF ~x.ok THEN Fail(x.err)
        ELSE [NoRes EXCEPT !.ok = TRUE, !.cmd = "SetCmd", !.key = key.s,
                           !.value = value, !.expire = e.expire, !.setx = x.setx]

\* impl TryFrom<&[RESPType]> for Get
Get_try_from(arr) ==
    LET key == get_string(arr[1])
    IN  IF Len(arr) = 0 THEN LackArgs(1, 0)
        ELSE IF ~key.ok THEN Fail(key.err)
        ELSE KeyCmd("Get", key.s)

\* impl TryFrom<&[RESPType]> for GetSet
GetSet_try_from(v) ==
    LET n == Len(v)
        key == get_string(v[1])
        value == Value_try_from(v[2])
    IN  IF ~(n = 2) THEN LackArgs(2, Len(v))
        ELSE IF ~key.ok THEN Fail(key.err)
        ELSE IF ~value.ok THEN Fail(value.err)
        ELSE [NoRes EXCEPT !.ok = TRUE, !.cmd = "GetSet", !.key = key.s, !.value = value]

\* StrLen::try_from that converts the key before it checks the count
StrLen_try_from_key_first(v) ==
    LET key == get_string(v[1])
    IN  IF Len(v) >= 1 /\ ~key.ok THEN Fail(key.err)
        ELSE IF ~(Len(v) = 1) THEN LackArgs(1, Len(v))
        ELSE KeyCmd("StrLen", key.s)

\* impl TryFrom<&[RESPType]> for StrLen
StrLen_try_from(v) ==
    LET key == get_string(v[1])
    IN  IF ~(Len(v) = 1) THEN LackArgs(1, Len(v))
        ELSE IF ~key.ok THEN Fail(key.err)
        ELSE KeyCmd("StrLen", key.s)

\* impl TryFrom<&[RESPType]> for Exists
Exists_try_from(v) ==
    LET key == get_string(v[1])
    IN  IF ~(Len(v) = 1) THEN LackArgs(1, Len(v))
        ELSE IF ~key.ok THEN Fail(key.err)
        ELSE KeyCmd("Exists", key.s)

\* impl TryFrom<&[RESPType]> for Del
Del_try_from(v) ==
    LET n == Len(v)
        bad == {i \in 1..n : ~get_string(v[i]).ok}
        first == CHOOSE i \in bad : \A j \in bad : i <= j
    IN  IF ~(n > 0) THEN LackArgs(1, 0)
        ELSE IF bad # {} THEN Fail(get_string(v[first]).err)
        ELSE [NoRes EXCEPT !.ok = TRUE, !.cmd = "Del",
                           !.keys = [i \in 1..n |-> get_string(v[i]).s]]

\* RedisCommands::try_from that also takes the upper-case spelling of set
RedisCommands_try_from_upper(value) ==
    LET a == to_arr(value)
        action == get_string(a.arr[1])
        args == Tail(a.arr)
    IN  IF ~a.ok THEN Fail(a.err)
        ELSE IF ~action.ok THEN Fail(action.err)
        ELSE CASE action.s \in {T_set, <<"S", "E", "T">>} -> SetCmd_try_from(args)
               [] action.s = T_get -> Get_try_from(args)
               [] action.s = T_getset -> GetSet_try_from(args)
               [] action.s = T_strlen -> StrLen_try_from(args)
               [] action.s = T_exists -> Exists_try_from(args)
               [] action.s = T_del -> Del_try_from(args)
               [] OTHER -> UnknownCommand(action.s)

\* impl TryFrom<&RESPType> for RedisCommands
RedisCommands_try_from(value) ==
    LET a == to_arr(value)
        action == get_string(a.arr[1])
        args == Tail(a.arr)
    IN  IF ~a.ok THEN Fail(a.err)
        ELSE IF ~action.ok THEN Fail(action.err)
        ELSE CASE action.s = T_set -> SetCmd_try_from(args)
               [] action.s = T_get -> Get_try_from(args)
               [] action.s = T_getset -> GetSet_try_from(args)
               [] action.s = T_strlen -> StrLen_try_from(args)
               [] action.s = T_exists -> Exists_try_from(args)
               [] action.s = T_del -> Del_try_from(args)
               [] OTHER -> UnknownCommand(action.s)

-----------------------------------------------------------------------------
(* The wire format of the values, as the decoder's tests write it *)

RECURSIVE Dec(_)
Dec(n) == IF n < 10 THEN <<DigitChars[n + 1]>> ELSE Dec(n \div 10) \o <<DigitChars[(n % 10) + 1]>>

RECURSIVE encode(_), encode_all(_)
encode_all(a) == IF Len(a) = 0 THEN <<>> ELSE encode(Head(a)) \o encode_all(Tail(a))

encode(v) ==
    CASE v.tag = "Str" -> <<"+">> \o v.str \o CRLF
      [] v.tag = "Error" -> <<"-">> \o v.str \o CRLF
      [] v.tag = "Integer" -> <<":">> \o v.num \o CRLF
      [] v.tag = "BulkStr" ->
            IF v.some THEN <<"$">> \o Dec(Len(v.str)) \o CRLF \o v.str \o CRLF
            ELSE <<"$">> \o MinusOne \o CRLF
      [] v.tag = "Arr" ->
            IF v.some THEN <<"*">> \o Dec(Len(v.arr)) \o CRLF \o encode_all(v.arr)
            ELSE <<"*">> \o MinusOne \o CRLF

-----------------------------------------------------------------------------
(* Inputs *)

MaxRaw == 3
MaxChunks == 2

SeqsUpTo(S, n) == UNION {[1..k -> S] : k \in 0..n}

RECURSIVE Flatten(_)
Flatten(ss) == IF Len(ss) = 0 THEN <<>> ELSE Head(ss) \o Flatten(Tail(ss))

RawByte == {"+", "-", ":", "$", "*", "0", "1", "2", CR, LF, BAD}

Prefixes == {"+", "-", ":", "$", "*"}

Lines ==
    { <<>>, <<"0">>, <<"1">>, <<"2">>, <<"3">>, <<"-", "1">>, <<"-", "2">>,
      <<"+", "1">>, <<"-", "0">>, <<"a", LF>>, <<BAD>>,
      I64MaxMag, I64MinMag, <<"-">> \o I64MinMag }

Terms == { CRLF, <<CR, CR, LF>>, <<LF>> }

Chunks ==
    { <<"a">>, <<"a", "b">>, CRLF, <<BAD>>,
      <<":", "1", CR, LF>>, <<"+", "a", CR, LF>>, <<"$", "-", "1", CR, LF>>,
      <<"*", "0", CR, LF>>, <<"*", "1", CR, LF>> }

Frames ==
    { <<p>> \o l \o t \o Flatten(cs) :
        p \in Prefixes, l \in Lines, t \in Terms, cs \in SeqsUpTo(Chunks, MaxChunks) }

WireInputs == SeqsUpTo(RawByte, MaxRaw) \cup Frames

-----------------------------------------------------------------------------
(* The decode loop of a connection: decode one value, keep the remainder *)

\* one parse_raw call on the bytes not yet decoded
Decode ==
    /\ pc = "ready"
    /\ inp' = buf
    /\ out' = parse_raw(buf)
    /\ calls' = calls + 1
    /\ buf' = IF out'.ok THEN out'.rest ELSE buf
    /\ pc' = IF ~out'.ok THEN "failed"
             ELSE IF out'.rest = <<>> THEN "drained" ELSE "ready"
    /\ UNCHANGED <<orig, val, tail, req, res>>

InitWire ==
    /\ pc = "ready"
    /\ buf \in WireInputs
    /\ orig = buf
    /\ inp = <<>>
    /\ out = PErr
    /\ calls = 0
    /\ val = NoVal
    /\ tail = <<>>
    /\ req = NoVal
    /\ res = NoRes

NextWire == Decode

SpecWire == InitWire /\ [][NextWire]_vars

-----------------------------------------------------------------------------
(* A peer that sends one well-formed value followed by arbitrary bytes *)

MaxWire == 24

Seeds ==
    { RStr(<<>>), RStr(<<"a", LF, "b">>), RError(<<"e">>),
      RInteger(<<"0">>), RInteger(<<"-", "1", "0">>),
      RInteger(I64MaxMag), RInteger(<<"-">> \o I64MinMag),
      RBulkNone, RBulk(<<>>), RBulk(<<"a", CR, LF, BAD>>), RBulk(<<CR>>),
      RArrNone, RArr(<<>>) }

Elems == { RStr(<<"a">>), RBulkNone, RInteger(<<"-", "1">>), RArr(<<>>) }

Tails ==
    { <<>>, <<"t", "t">>, <<LF>>, CRLF, <<"*", "1", CR, LF>>, <<"+", "a", CR, LF>> }

Fits(v) == Len(encode(v)) <= MaxWire

\* the value becomes the only element of a new array
Nest ==
    /\ pc = "build"
    /\ Fits(RArr(<<val>>))
    /\ val' = RArr(<<val>>)
    /\ UNCHANGED <<pc, buf, orig, inp, out, calls, tail, req, res>>

\* an element is added at the end of the array
Push(e) ==
    /\ pc = "build"
    /\ val.tag = "Arr" /\ val.some
    /\ Fits(RArr(Append(val.arr, e)))
    /\ val' = RArr(Append(val.arr, e))
    /\ UNCHANGED <<pc, buf, orig, inp, out, calls, tail, req, res>>

\* an element is added at the front of the array
Prepend(e) ==
    /\ pc = "build"
    /\ val.tag = "Arr" /\ val.some
    /\ Fits(RArr(<<e>> \o val.arr))
    /\ val' = RArr(<<e>> \o val.arr)
    /\ UNCHANGED <<pc, buf, orig, inp, out, calls, tail, req, res>>

\* the value is written in the wire format, then t follows on the connection
Send(t) ==
    /\ pc = "build"
    /\ buf' = encode(val) \o t
    /\ orig' = buf'
    /\ tail' = t
    /\ pc' = "ready"
    /\ UNCHANGED <<inp, out, calls, val, req, res>>

InitRound ==
    /\ pc = "build"
    /\ val \in Seeds
    /\ buf = <<>>
    /\ orig = <<>>
    /\ inp = <<>>
    /\ out = PErr
    /\ calls = 0
    /\ tail = <<>>
    /\ req = NoVal
    /\ res = NoRes

NextRound ==
    \/ Nest
    \/ \E e \in Elems : Push(e)
    \/ \E e \in Elems : Prepend(e)
    \/ \E t \in Tails : Send(t)
    \/ Decode

SpecRound == InitRound /\ [][NextRound]_vars

-----------------------------------------------------------------------------
(* The command layer on one decoded request *)

MaxArgs == 3
MaxMods == 3

B(t) == RBulk(t)
S(t) == RStr(t)

Names ==
    { S(T_set), B(T_set), S(T_get), S(T_getset), S(T_strlen), B(T_exists), S(T_del),
      S(<<"S", "E", "T">>), S(<<"G", "e", "t">>), B(<<"f", "o", "o">>), S(<<>>),
      B(<<BAD>>), RInteger(<<"1">>), RBulkNone }

Keys == { S(<<"k">>), B(<<"k">>), B(<<BAD>>), RInteger(<<"7">>) }

Vals ==
    { RInteger(<<"4", "5", "6">>), B(<<"v", BAD>>), S(<<"v">>), RBulkNone,
      RError(<<"e">>), RArrNone, RArr(<<S(<<"v">>)>>) }

Mods ==
    { S(T_ex), B(T_px), S(T_nx), B(T_xx), S(<<"1", "5", "0", "0">>),
      S(<<"-", "1">>), S(<<"E", "X">>), B(<<BAD>>), RInteger(<<"5">>) }

Args == { S(<<"k">>), B(<<"k">>), B(<<BAD>>), RInteger(<<"4", "5", "6">>), RBulkNone,
          RError(<<"e">>), RArr(<<>>) }

\* what a client may put after the elements already in the request
NextArgs(a) ==
    IF a[1] = S(T_set)
    THEN IF Len(a) = 1 THEN Keys
         ELSE IF Len(a) = 2 THEN Vals
         ELSE IF Len(a) < 3 + MaxMods THEN Mods
         ELSE {}
    ELSE IF Len(a) < 1 + MaxArgs THEN Args ELSE {}

\* the client adds one more element to the request
AddArg(e) ==
    /\ pc = "request"
    /\ req.tag = "Arr" /\ req.some /\ Len(req.arr) >= 1
    /\ e \in NextArgs(req.arr)
    /\ req' = RArr(Append(req.arr, e))
    /\ UNCHANGED <<pc, res, buf, orig, inp, out, calls, val, tail>>

\* the server interprets the request
Interpret ==
    /\ pc = "request"
    /\ res' = RedisCommands_try_from(req)
    /\ pc' = "done"
    /\ UNCHANGED <<buf, orig, inp, out, calls, val, tail, req>>

InitCmd ==
    /\ pc = "request"
    /\ req \in {RArr(<<n>>) : n \in Names}
                \cup {RArr(<<>>), RArrNone, S(T_get), RInteger(<<"1">>), RBulkNone}
    /\ res = NoRes
    /\ buf = <<>>
    /\ orig = <<>>
    /\ inp = <<>>
    /\ out = PErr
    /\ calls = 0
    /\ val = NoVal
    /\ tail = <<>>

NextCmd ==
    \/ \E e \in Keys \cup Vals \cup Mods \cup Args : AddArg(e)
    \/ Interpret

SpecCmd == InitCmd /\ [][NextCmd]_vars

-----------------------------------------------------------------------------
(* Properties of the decoder, under SpecRound and SpecWire *)

\* C1: round trip. A well-formed value (Str/Error text without CR, any i64, any
\* bytes, null or nested arrays), written in the wire format with nothing after
\* it, decodes to exactly that value and an empty remainder.
RoundTrip ==
    (calls = 1 /\ tail = <<>>) => (out.ok /\ out.v = val /\ out.rest = <<>>)

RoundTripWitness ==
    /\ calls = 1 /\ tail = <<>> /\ out.ok
    /\ val.tag = "Arr" /\ Len(val.arr) = 2
    /\ val.arr[1].tag = "Arr" /\ val.arr[1].arr = <<RBulk(<<"a", CR, LF, BAD>>)>>
    /\ val.arr[2] = RBulkNone

\* C2: remainder. Whatever bytes follow the encoded value, the first decode
\* returns the value unchanged and exactly those bytes, byte for byte.
RemainderExact ==
    (calls = 1 /\ tail # <<>>) =>
        /\ out.ok
        /\ out.v = val
        /\ out.rest = tail
        /\ inp = encode(val) \o tail

RemainderWitness ==
    /\ calls = 1 /\ tail = CRLF /\ out.ok /\ out.rest = CRLF
    /\ val.tag = "Arr" /\ Len(val.arr) = 2 /\ val.arr[2] = RArr(<<>>)

\* the length a '$' or '*' header declares: the line between the prefix byte and
\* the first CR-LF, read as a signed decimal
Header == pi(inp[1], inp)
Declared == Header.n
HasHeader == calls >= 1 /\ Len(inp) >= 1 /\ inp[1] \in {"$", "*"} /\ Header.ok

\* C3: length exactness. A '$' or '*' value that decodes is null exactly when the
\* declared length is -1; otherwise the length is non-negative and the value
\* holds exactly that many payload bytes, followed on the wire by CR-LF, or
\* exactly that many elements. "$-1\r\n" is the null bulk string and
\* "$0\r\n\r\n" the empty one, and they differ.
LengthExact ==
    /\ (calls >= 1 /\ out.ok /\ out.v.tag \in {"BulkStr", "Arr"}) =>
          /\ HasHeader
          /\ (~out.v.some) <=> (Declared = MinusOne)
          /\ out.v.some =>
                /\ Declared[1] # "-"
                /\ Len(Declared) < 10
                /\ out.v.tag = "BulkStr" =>
                      /\ Len(out.v.str) = ToNat(Declared)
                      /\ out.v.str = Take(Header.rest, ToNat(Declared))
                      /\ SubSeq(Header.rest, ToNat(Declared) + 1, ToNat(Declared) + 2) = CRLF
                      /\ out.rest = Drop(Header.rest, ToNat(Declared) + 2)
                /\ out.v.tag = "Arr" => Len(out.v.arr) = ToNat(Declared)
    /\ (calls >= 1 /\ inp = <<"$", "-", "1", CR, LF>>) => out = POk(RBulkNone, <<>>)
    /\ (calls >= 1 /\ inp = <<"$", "0", CR, LF, CR, LF>>) => out = POk(RBulk(<<>>), <<>>)
    /\ RBulkNone # RBulk(<<>>)

LengthExactWitness ==
    /\ calls = 1 /\ out.ok /\ out.v = RBulk(CRLF) /\ Declared = <<"2">>

\* the number of complete values at the front of i
RECURSIVE CountElems(_)
CountElems(i) ==
    LET r == parse_raw(i)
    IN  IF r.ok /\ Len(r.rest) < Len(i) THEN 1 + CountElems(r.rest) ELSE 0

\* C4: bad lengths are rejected. A declared bulk length or array count that is
\* negative and not -1, or larger than the bytes / complete elements that follow
\* in the buffer, makes parse_raw return an error.
BadLengthRejected ==
    HasHeader =>
        LET avail == IF inp[1] = "$" THEN Len(Header.rest) ELSE CountElems(Header.rest)
            negative == Declared[1] = "-" /\ Declared # MinusOne
            tooLarge == Declared[1] # "-"
                        /\ (Len(Declared) >= 10 \/ ToNat(Declared) > avail)
        IN  (negative \/ tooLarge) => ~out.ok

BadLengthWitness ==
    /\ HasHeader /\ calls = 1 /\ ~out.ok
    /\ inp = <<"$", "-", "2", CR, LF, "a", "b", CR, LF>>

RECURSIVE TextsHaveNo(_, _)
TextsHaveNo(v, bytes) ==
    /\ v.tag \in {"Str", "Error"} => \A k \in 1..Len(v.str) : v.str[k] \notin bytes
    /\ \A k \in 1..Len(v.arr) : TextsHaveNo(v.arr[k], bytes)

\* C5: every Str and Error of a decoded tree carries text with no CR and no LF.
TextHasNoCrLf ==
    (calls >= 1 /\ out.ok) => TextsHaveNo(out.v, {CR, LF})

\* C10: progress. A successful parse_raw returns a suffix of its input at least
\* three bytes shorter (prefix byte and CR-LF), so the loop that decodes the
\* remainder again makes at most Len(orig) \div 3 successful calls and stops
\* with an empty remainder or a decode error.
Progress ==
    /\ (calls >= 1 /\ out.ok) =>
          /\ Len(out.rest) + 3 <= Len(inp)
          /\ out.rest = Drop(inp, Len(inp) - Len(out.rest))
          /\ buf = out.rest
    /\ 3 * (calls - (IF pc = "failed" THEN 1 ELSE 0)) <= Len(orig) - Len(buf)
    /\ pc = "drained" => (out.ok /\ buf = <<>>)
    /\ pc = "failed" => ~out.ok
    /\ pc = "ready" => (calls = 0 \/ (out.ok /\ buf # <<>>))

ProgressWitness ==
    /\ calls = 3 /\ pc = "drained"
    /\ orig = <<"$", "-", "1", CR, LF, "$", "-", "1", CR, LF, "*", "0", CR, LF>>

-----------------------------------------------------------------------------
(* Properties of the command layer, under SpecCmd *)

IsText(v) == v.tag \in {"Str", "BulkStr"} /\ v.some /\ from_utf8_ok(v.str)
TextIs(v, t) == IsText(v) /\ v.str = t

\* the request is a non-empty array whose first element is text
Named == pc = "done" /\ req.tag = "Arr" /\ req.some /\ Len(req.arr) >= 1 /\ IsText(req.arr[1])
NameIs(t) == Named /\ req.arr[1].str = t
NArgs == Len(req.arr) - 1
Arg(k) == req.arr[k + 1]

CommandNames == {T_set, T_get, T_getset, T_strlen, T_exists, T_del}

ArityOk(t, n) ==
    CASE t = T_set -> n >= 2
      [] t = T_get -> n >= 1
      [] t = T_getset -> n = 2
      [] t = T_strlen -> n = 1
      [] t = T_exists -> n = 1
      [] t = T_del -> n >= 1

Required(t) == IF t \in {T_set, T_getset} THEN 2 ELSE 1

\* C6: arity errors. A command whose argument count breaks its rule fails with
\* LackArgs(required, provided), provided being the count given, whatever the
\* arguments are; a count that meets the rule never gives LackArgs.
ArityErrors ==
    (Named /\ req.arr[1].str \in CommandNames) =>
        IF ArityOk(req.arr[1].str, NArgs)
        THEN res.err # "LackArgs"
        ELSE res = LackArgs(Required(req.arr[1].str), NArgs)

ArityWitness ==
    /\ NameIs(T_getset) /\ NArgs = 3 /\ ~IsText(Arg(1))
    /\ res = LackArgs(2, 3)

\* what the SET grammar reads after key and value
SetRest == Drop(req.arr, 3)
SetHasExpire ==
    Len(SetRest) >= 2 /\ (TextIs(SetRest[1], T_ex) \/ TextIs(SetRest[1], T_px))
SetAfterExpire == IF SetHasExpire THEN Drop(SetRest, 2) ELSE SetRest
SetExpireParses == IsText(SetRest[2]) /\ parse_u64(SetRest[2].str).ok
SetBase ==
    /\ NameIs(T_set) /\ NArgs >= 2
    /\ IsText(Arg(1)) /\ Value_try_from(Arg(2)).ok
SetPre == SetBase /\ (SetHasExpire => SetExpireParses)

\* the duration is n seconds (ex) or n milliseconds (px)
DurationIs(d, unit, n) ==
    /\ d.some
    /\ IF unit = T_ex
       THEN d.secs = n /\ d.nanos = 0
       ELSE /\ d.nanos % 1000000 = 0
            /\ ToNat(d.secs) * 1000 + d.nanos \div 1000000 = ToNat(n)

SetResultAsClaimed ==
    /\ res.ok /\ res.cmd = "SetCmd"
    /\ res.key = Arg(1).str
    /\ res.value = Value_try_from(Arg(2))
    /\ IF SetHasExpire
       THEN DurationIs(res.expire, SetRest[1].str, parse_u64(SetRest[2].str).n)
       ELSE res.expire = NoDuration
    /\ res.setx = IF Len(SetAfterExpire) = 0 THEN "None"
                  ELSE IF TextIs(SetAfterExpire[1], T_nx) THEN "NX"
                  ELSE IF TextIs(SetAfterExpire[1], T_xx) THEN "XX"
                  ELSE "None"

\* the arguments whose text the grammar reads
SetInspected ==
    (IF Len(SetRest) >= 2 THEN {SetRest[1]} ELSE {})
    \cup (IF Len(SetAfterExpire) >= 1 THEN {SetAfterExpire[1]} ELSE {})

\* C7 as stated: any token that is not a recognised modifier is ignored and
\* never makes SET fail.
SetGrammarAnyToken == SetPre => SetResultAsClaimed

\* C7 amended: the grammar holds when the arguments it reads are text; a read
\* argument that is not text makes SET fail with that argument's conversion
\* error, and an "ex" / "px" whose number is not unsigned decimal text makes
\* SET fail too.
SetGrammar ==
    SetBase =>
        IF SetHasExpire /\ ~SetExpireParses
        THEN ~res.ok /\ res.err \in {"NotStr", "Utf8Error", "ParseIntError"}
        ELSE IF \A a \in SetInspected : IsText(a)
        THEN SetResultAsClaimed
        ELSE ~res.ok /\ res.err \in {"NotStr", "Utf8Error"}

SetGrammarWitness ==
    /\ SetPre /\ Len(SetRest) = 3 /\ TextIs(SetRest[1], T_px)
    /\ res.ok /\ res.expire = [some |-> TRUE, secs |-> <<"1">>, nanos |-> 500000000]
    /\ res.setx = "NX"

\* C8: unknown command. A first element that is text and is none of the six
\* lower-case names fails with UnknownCommand carrying that text, whatever
\* follows; one of the six names never fails with UnknownCommand.
UnknownCommands ==
    Named =>
        IF req.arr[1].str \in CommandNames
        THEN res.err # "UnknownCommand"
        ELSE res = UnknownCommand(req.arr[1].str)

UnknownWitness ==
    /\ NameIs(<<"S", "E", "T">>) /\ NArgs = 2
    /\ res = UnknownCommand(<<"S", "E", "T">>)

\* C9: value conversion. In the value position of SET and GETSET (arity met, key
\* text): Integer gives Num, a present bulk string gives BSStr of its bytes
\* (UTF-8 or not), Str gives Str; a null bulk string fails with NullStr, Error
\* and Arr with WrongValueType.
ValueConversion ==
    ((NameIs(T_set) /\ NArgs >= 2) \/ (NameIs(T_getset) /\ NArgs = 2)) /\ IsText(Arg(1)) =>
        LET v == Arg(2)
        IN  /\ (v.tag = "BulkStr" /\ ~v.some) => res = Fail("NullStr")
            /\ v.tag \in {"Error", "Arr"} => res = Fail("WrongValueType")
            /\ (v.tag \in {"Integer", "Str"} \/ (v.tag = "BulkStr" /\ v.some)) =>
                  /\ res.err \notin {"NullStr", "WrongValueType"}
                  /\ NameIs(T_getset) => res.ok
                  /\ res.ok =>
                        res.value = CASE v.tag = "Integer" -> Num(v.num)
                                      [] v.tag = "BulkStr" -> BSStr(v.str)
                                      [] v.tag = "Str" -> VStr(v.str)

ValueWitness ==
    /\ NameIs(T_getset) /\ NArgs = 2 /\ Arg(2) = RBulk(<<BAD>>)
    /\ res.ok /\ res.value = BSStr(<<BAD>>)

=============================================================================
